---- MODULE Spec2Model ----
(***************************************************************************)
(* Model of the population-exposure engine of the wildfire web app:        *)
(*   - PopulationExposureCounter (calculateExposure, its memo and its      *)
(*     debounced effect), src/src/components/Map/MapComponent.js 892-1178  *)
(*   - getSelectedCensusTracts / highlightIntersectingTracts /             *)
(*     calculatePopulation and the spatial predicates,                     *)
(*     src/unnamed/part_000 264-624                                        *)
(* JavaScript is single threaded: the code between two awaits is one       *)
(* atomic step; every await is a point where other handlers may run.       *)
(***************************************************************************)
EXTENDS Integers, Sequences, FiniteSets, TLC

\* ------------------------------------------------------------- bounds
\* Number of calculateExposure / getSelectedCensusTracts invocations explored
\* by SpecFlow (few renderer answers) and by Spec (every renderer answer).
MaxInvoke == 3
MaxRequests == 1
\* Number of renders explored by SpecDebounce (with the wall clock).
MaxRenders == 2
\* Number of direct getSelectedCensusTracts calls explored by SpecCensus.
MaxCalls == 2
\* Number of renders explored by SpecRecover (failures, then a new request).
MaxRecover == 2
\* Number of invocations (renders and clearCaches calls) explored by SpecReset.
MaxReset == 3
\* Number of points a draft polygon can hold in SpecDraw.
MaxDraft == 4
\* The wall clock advances in steps of TickMs up to MaxTime milliseconds.
MaxTime == 1000
TickMs == 500
MaxChanges == 2
MaxHookTime == 1500
MaxClicks == 3

\* ---------------------------------------------------------- constants
\* _.debounce(..., 1000, {leading: true, trailing: true})
DebounceWait == 1000
\* JavaScript null in a numeric slot (summary.totalPopulation: null).
Null == -1
\* getCurrentDateTime's date: '' for an instant with no tileset.
EmptyDate == -1

\* Infinity of getBoundingBox's initial box: larger than every coordinate.
Infinity == 1000

ErrNone == "none"
ErrLoading == "Loading data for this time period..."
ErrFailed == "Failed to calculate exposure"

\* ------------------------------------------------- spatial predicates
\* An edge test that compares x with the edge's first end only.
IntersectIgnoringSlope(x, y, pi, pj) ==
  /\ (pi[2] > y) # (pj[2] > y)
  /\ x < pi[1]

\* One edge test of the ray casting loop:
\*   ((yi > y) !== (yj > y)) && (x < (xj - xi) * (y - yi) / (yj - yi) + xi)
\* The division is by d = yj - yi, non-zero whenever the first conjunct holds;
\* the comparison is multiplied through by d with the sign of d respected.
Intersect(x, y, pi, pj) ==
  LET xi == pi[1]
      yi == pi[2]
      xj == pj[1]
      yj == pj[2]
      d  == yj - yi
  IN  /\ (yi > y) # (yj > y)
      /\ IF d > 0 THEN (x - xi) * d < (xj - xi) * (y - yi)
                  ELSE (x - xi) * d > (xj - xi) * (y - yi)

RECURSIVE RayLoop(_, _, _, _)
RayLoop(point, polygon, i, inside) ==
  IF i > Len(polygon) THEN inside
  ELSE LET j == IF i = 1 THEN Len(polygon) ELSE i - 1
       IN  RayLoop(point, polygon, i + 1,
                   IF Intersect(point[1], point[2], polygon[i], polygon[j])
                   THEN ~inside ELSE inside)

\* A point that is not an array is modelled as the empty sequence.
isPointInPolygon(point, polygon) ==
  IF Len(point) < 2 THEN FALSE ELSE RayLoop(point, polygon, 1, FALSE)

\* The copy of isPointInPolygon in MapComponent.js, used by the sample filter.
RECURSIVE RayLoopMC(_, _, _, _)
RayLoopMC(point, polygon, i, inside) ==
  IF i > Len(polygon) THEN inside
  ELSE LET j  == IF i = 1 THEN Len(polygon) ELSE i - 1
           x  == point[1]
           y  == point[2]
           xi == polygon[i][1]
           yi == polygon[i][2]
           xj == polygon[j][1]
           yj == polygon[j][2]
           intersect ==
             /\ (yi > y) # (yj > y)
             /\ IF yj - yi > 0 THEN (x - xi) * (yj - yi) < (xj - xi) * (y - yi)
                              ELSE (x - xi) * (yj - yi) > (xj - xi) * (y - yi)
       IN  RayLoopMC(point, polygon, i + 1, IF intersect THEN ~inside ELSE inside)

isPointInPolygonMC(point, polygon) ==
  IF Len(point) < 2 THEN FALSE ELSE RayLoopMC(point, polygon, 1, FALSE)

\* Math.min and Math.max of two numbers.
Min(a, b) == IF a <= b THEN a ELSE b
Max(a, b) == IF a >= b THEN a ELSE b

\* A reducer that takes the maxima from the current point alone.
BoundsStepOverwrite(bounds, pt) ==
  [minLng |-> Min(bounds.minLng, pt[1]), maxLng |-> pt[1],
   minLat |-> Min(bounds.minLat, pt[2]), maxLat |-> pt[2]]

\* The reducer of getBoundingBox.
BoundsStep(bounds, pt) ==
  [minLng |-> Min(bounds.minLng, pt[1]), maxLng |-> Max(bounds.maxLng, pt[1]),
   minLat |-> Min(bounds.minLat, pt[2]), maxLat |-> Max(bounds.maxLat, pt[2])]

\* polygon.reduce(reducer, initial) from point i on.
RECURSIVE BoundsReduce(_, _, _)
BoundsReduce(polygon, i, bounds) ==
  IF i > Len(polygon) THEN bounds
  ELSE BoundsReduce(polygon, i + 1, BoundsStep(bounds, polygon[i]))

getBoundingBox(polygon) ==
  BoundsReduce(polygon, 1, [minLng |-> Infinity, maxLng |-> -Infinity,
                            minLat |-> Infinity, maxLat |-> -Infinity])

\* ----------------------------------------------------------- fixtures
\* The values of the simulation clock currentHour: hour 0 (first tileset),
\* hour 1 (no tileset) and hour 2 (second tileset).
Hours == {0, 1, 2}

\* Polygon references handed to the component; 0 stands for null.
PolyRefs == {1, 2}
PolyShape(p) ==
  IF p = 1 THEN << <<0, 0>>, <<8, 0>>, <<8, 8>>, <<0, 8>>, <<0, 0>> >>
           ELSE << <<4, 4>>, <<12, 4>>, <<12, 12>>, <<4, 12>>, <<4, 4>> >>

\* GEOIDs are strings of digits; a digit sequence stands for the string.
G1 == <<0, 6, 0, 0, 1, 4, 0, 0, 1, 0, 0>>
G2 == <<0, 6, 0, 0, 1, 4, 0, 0, 2, 0, 0>>
G3 == <<0, 6, 0, 0, 1, 4, 0, 0, 3, 0, 0>>
GBad == <<0, 6, 0, 0, 1>>

\* Census tract features the renderer can return (feature.geometry.coordinates[0]
\* and feature.properties.GEOID; the empty sequence is a missing GEOID).
\* Tract 3 has every vertex outside both polygons and covers them; tract 4 has
\* a malformed GEOID; tract 5 a GEOID the population table does not hold;
\* tract 6 straddles the first polygon's corner and has no GEOID.
Tract(t) ==
  CASE t = 1 -> [ring |-> << <<1, 1>>, <<3, 1>>, <<3, 3>>, <<1, 1>> >>, geoid |-> G1]
    [] t = 2 -> [ring |-> << <<5, 5>>, <<7, 5>>, <<7, 7>>, <<5, 5>> >>, geoid |-> G2]
    [] t = 3 -> [ring |-> << <<-1, -1>>, <<13, -1>>, <<13, 13>>, <<-1, 13>>, <<-1, -1>> >>,
                 geoid |-> G3]
    [] t = 4 -> [ring |-> << <<2, 5>>, <<3, 5>>, <<3, 6>>, <<2, 5>> >>, geoid |-> GBad]
    [] t = 6 -> [ring |-> << <<7, 7>>, <<9, 7>>, <<9, 9>>, <<7, 7>> >>, geoid |-> <<>>]
    [] OTHER -> [ring |-> << <<6, 2>>, <<7, 2>>, <<7, 3>>, <<6, 2>> >>, geoid |-> G3]

\* What queryRenderedFeatures can answer for the census layer inside the
\* polygon's bounding box: it depends on the tiles the renderer has loaded.
\* The renderer returns a feature once per tile it is drawn in (<<2, 2>>).
TractQueries == { <<>>, <<1>>, <<1, 2>>, <<3>>, <<2, 4>>, <<1, 4, 5, 6>>, <<2, 2>> }

\* The population table fetchCensusPopulation resolves to.
PopTable == [g \in {G1, G2} |-> IF g = G1 THEN 1000 ELSE 500]

\* Concentration samples: coordinates (empty: no geometry) and the raw PM25
\* property: a number, a string that starts with a number, or other text.
Num(n) == [kind |-> "number", n |-> n]
NumStr(n) == [kind |-> "numstr", n |-> n]
Text == [kind |-> "text", n |-> 0]
Sample(x, y, v) == [coords |-> <<x, y>>, PM25 |-> v]
\* What queryRenderedFeatures can answer for the concentration layer, already
\* filtered by the renderer to the samples of the requested time string.
SampleQueries ==
  { <<>>,
    << Sample(5, 5, Num(12)), Sample(6, 5, Num(12)), Sample(5, 6, NumStr(12)),
       Sample(6, 6, Num(12)), Sample(7, 7, Num(12)) >>,
    << Sample(5, 5, Num(40)), Sample(6, 6, Text) >>,
    << Sample(20, 20, Num(12)) >>,
    << [coords |-> <<>>, PM25 |-> Num(50)], Sample(5, 5, Num(3)) >>,
    << Sample(5, 5, Num(35)) >>,
    << Sample(5, 5, Num(5)), Sample(6, 6, Num(15)) >> }

\* --------------------------------------------------------- census API
\* isValidGEOID: a fixed-length string of digits (11 characters for a tract).
isValidGEOID(g) == Len(g) = 11 /\ \A i \in 1..Len(g) : g[i] \in 0..9

\* A forEach that tests only that the GEOID is present.
RECURSIVE PopulationLoopUnvalidated(_, _, _)
PopulationLoopUnvalidated(features, i, acc) ==
  IF i > Len(features) THEN acc
  ELSE LET geoid == Tract(features[i]).geoid
       IN  IF Len(geoid) = 0
           THEN PopulationLoopUnvalidated(features, i + 1, acc)
           ELSE LET population == IF geoid \in DOMAIN PopTable THEN PopTable[geoid] ELSE 0
                    tracts == [g \in DOMAIN acc.tracts \cup {geoid} |->
                                 IF g = geoid THEN population ELSE acc.tracts[g]]
                IN  PopulationLoopUnvalidated(features, i + 1,
                                   [tracts |-> tracts, total |-> acc.total + population])

\* The forEach of calculatePopulation over highlightResult.features, from
\* feature i on: acc = [tracts, total].
RECURSIVE PopulationLoop(_, _, _)
PopulationLoop(features, i, acc) ==
  IF i > Len(features) THEN acc
  ELSE LET geoid == Tract(features[i]).geoid
       IN  IF Len(geoid) = 0 \/ ~isValidGEOID(geoid)
           THEN PopulationLoop(features, i + 1, acc)
           ELSE LET population == IF geoid \in DOMAIN PopTable THEN PopTable[geoid] ELSE 0
                    tracts == [g \in DOMAIN acc.tracts \cup {geoid} |->
                                 IF g = geoid THEN population ELSE acc.tracts[g]]
                IN  PopulationLoop(features, i + 1,
                                   [tracts |-> tracts, total |-> acc.total + population])

NoTracts == [g \in {} |-> 0]

Result(status, totalPopulation, tractCount, tracts) ==
  [status |-> status, totalPopulation |-> totalPopulation,
   tractCount |-> tractCount, tracts |-> tracts]

\* The second-stage result of calculatePopulation; fetchOk is whether
\* fetchCensusPopulation resolved (TRUE) or rejected (FALSE).
calculatePopulation(features, fetchOk) ==
  IF fetchOk
  THEN LET acc == PopulationLoop(features, 1, [tracts |-> NoTracts, total |-> 0])
       IN  Result("complete", acc.total, Len(features), acc.tracts)
  ELSE Result("error", 0, Len(features), NoTracts)

\* A filter that keeps a candidate only when every vertex is inside.
IntersectingFeaturesAllInside(candidates, polygon) ==
  SelectSeq(candidates,
            LAMBDA t : \A k \in 1..Len(Tract(t).ring) :
                          isPointInPolygon(Tract(t).ring[k], polygon))

\* The filter of highlightIntersectingTracts: a candidate is kept when some
\* vertex of its first ring is inside the polygon.
IntersectingFeatures(candidates, polygon) ==
  SelectSeq(candidates,
            LAMBDA t : \E k \in 1..Len(Tract(t).ring) :
                          isPointInPolygon(Tract(t).ring[k], polygon))

\* A first result that reports a missing highlight result as an error.
FirstResultErrorOnEmpty(hl) ==
  IF Len(hl) = 0 THEN Result("error", 0, 0, NoTracts)
  ELSE Result("calculating", Null, Len(hl), NoTracts)

\* A first result that takes its tract count from the (still empty) tracts map.
FirstResultFromTracts(hl) ==
  IF Len(hl) = 0 THEN Result("noTracts", 0, 0, NoTracts)
  ELSE Result("calculating", Null, Cardinality(DOMAIN NoTracts), NoTracts)

\* The first result getSelectedCensusTracts returns for a highlight result
\* (the empty sequence stands for highlightResult = null).
FirstResult(hl) ==
  IF Len(hl) = 0 THEN Result("noTracts", 0, 0, NoTracts)
  ELSE Result("calculating", Null, Len(hl), NoTracts)

\* A first stage that starts the population calculation before it looks at
\* the highlight result.
StartsPopulationAlways(hl) == TRUE

\* Whether the first stage goes on to call calculatePopulation().
StartsPopulation(hl) == Len(hl) > 0

\* ------------------------------------------------------------ tilesets
TILESET_INFO ==
  << [id |-> 1, date |-> 0, startHour |-> 0, endHour |-> 0],
     [id |-> 2, date |-> 0, startHour |-> 2, endHour |-> 3] >>

\* A find whose upper test is strict: the last hour of a window is left out.
RECURSIVE FindTilesetOpenEnd(_, _, _)
FindTilesetOpenEnd(date, hour, i) ==
  IF i > Len(TILESET_INFO) THEN <<>>
  ELSE IF /\ TILESET_INFO[i].date = date
          /\ hour >= TILESET_INFO[i].startHour
          /\ hour < TILESET_INFO[i].endHour
       THEN << TILESET_INFO[i] >>
       ELSE FindTilesetOpenEnd(date, hour, i + 1)

\* Array.prototype.find over TILESET_INFO from index i: <<t>> or <<>> (undefined).
RECURSIVE FindTileset(_, _, _)
FindTileset(date, hour, i) ==
  IF i > Len(TILESET_INFO) THEN <<>>
  ELSE IF /\ TILESET_INFO[i].date = date
          /\ hour >= TILESET_INFO[i].startHour
          /\ hour <= TILESET_INFO[i].endHour
       THEN << TILESET_INFO[i] >>
       ELSE FindTileset(date, hour, i + 1)

getCurrentTilesetInfo(date, hour) == FindTileset(date, hour, 1)

\* START_DATE is taken as midnight UTC of day 0; the date string is the day.
getCurrentDateTime(hourIndex) ==
  LET date == hourIndex \div 24
      hour == hourIndex % 24
  IN  IF Len(getCurrentTilesetInfo(date, hour)) = 0
      THEN [date |-> EmptyDate, hour |-> 0]
      ELSE [date |-> date, hour |-> hour]

\* A key made of the date alone.
TimeKeyDateOnly(dt) == <<dt.date, 0>>

\* `${date}-${hour}`: the pair stands for the string, which determines it.
TimeKey(dt) == <<dt.date, dt.hour>>

\* ------------------------------------------------------------ exposure
PM25_LEVELS ==
  << [label |-> "Good", value |-> 0],
     [label |-> "Moderate", value |-> 10],
     [label |-> "Unhealthy", value |-> 35] >>
Labels == { PM25_LEVELS[i].label : i \in 1..Len(PM25_LEVELS) }

\* parseFloat of the raw PM25 property: <<n>> or <<>> (NaN).
parseFloat(raw) == IF raw.kind \in {"number", "numstr"} THEN <<raw.n>> ELSE <<>>

\* The sample filter of calculateExposure.
InsideSamples(samples, polygon) ==
  SelectSeq(samples, LAMBDA f : Len(f.coords) > 0 /\ isPointInPolygonMC(f.coords, polygon))

\* features.reduce((sum, f) => isNaN(pm25) ? sum : sum + pm25, 0)
RECURSIVE SumPM25(_, _)
SumPM25(features, i) ==
  IF i > Len(features) THEN 0
  ELSE LET pm25 == parseFloat(features[i].PM25)
       IN  (IF Len(pm25) = 0 THEN 0 ELSE pm25[1]) + SumPM25(features, i + 1)

\* calculatedAvgPM25 as the fraction <<numerator, denominator>>.
AvgPM25(features) ==
  IF Len(features) > 0 THEN << SumPM25(features, 1), Len(features) >> ELSE <<0, 1>>

\* A find whose lower test is strict: a mean equal to a threshold falls into
\* the bin below it.
RECURSIVE FindCategoryStrict(_, _)
FindCategoryStrict(avg, i) ==
  IF i > Len(PM25_LEVELS) THEN 0
  ELSE IF /\ avg[1] > PM25_LEVELS[i].value * avg[2]
          /\ (i = Len(PM25_LEVELS) \/ avg[1] <= PM25_LEVELS[i + 1].value * avg[2])
       THEN i
       ELSE FindCategoryStrict(avg, i + 1)

\* PM25_LEVELS.find(...) from index i: the index of the level, 0 for undefined.
RECURSIVE FindCategory(_, _)
FindCategory(avg, i) ==
  IF i > Len(PM25_LEVELS) THEN 0
  ELSE IF /\ avg[1] >= PM25_LEVELS[i].value * avg[2]
          /\ (i = Len(PM25_LEVELS) \/ avg[1] < PM25_LEVELS[i + 1].value * avg[2])
       THEN i
       ELSE FindCategory(avg, i + 1)

ExposureByPM25(features, totalPopulation) ==
  LET cat == IF Len(features) > 0 THEN FindCategory(AvgPM25(features), 1) ELSE 0
  IN  [l \in Labels |-> IF cat > 0 /\ l = PM25_LEVELS[cat].label THEN totalPopulation ELSE 0]

\* --------------------------------------------------------------- stats
NullValue == [present |-> FALSE, totalPopulation |-> Null, avgPM25 |-> <<0, 1>>]
NullDist == [present |-> FALSE, dist |-> [l \in Labels |-> 0]]

InitStats ==
  [censusStats |-> [value |-> NullValue, isLoading |-> TRUE, error |-> ErrNone,
                    tractCount |-> 0],
   exposureByPM25 |-> [value |-> NullDist, isLoading |-> TRUE, error |-> ErrNone]]

\* newStats of calculateExposure, from the census result and the inside samples.
NewStats(censusData, features) ==
  [censusStats |->
     [value |-> [present |-> TRUE, totalPopulation |-> censusData.totalPopulation,
                 avgPM25 |-> AvgPM25(features)],
      isLoading |-> FALSE, error |-> ErrNone,
      tractCount |-> Cardinality(DOMAIN censusData.tracts)],
   exposureByPM25 |->
     [value |-> [present |-> TRUE,
                 dist |-> ExposureByPM25(features, censusData.totalPopulation)],
      isLoading |-> FALSE, error |-> ErrNone]]

\* setStats(prev => ({...prev, exposureByPM25: {value: null, isLoading: false, error}}))
WithExposureError(prev, error) ==
  [prev EXCEPT !.exposureByPM25 = [value |-> NullDist, isLoading |-> FALSE, error |-> error]]

\* The population the counter renders:
\*   stats.censusStats.value?.totalPopulation?.toLocaleString() || '0'
RenderedPopulation(s) ==
  IF s.censusStats.value.present /\ s.censusStats.value.totalPopulation # Null
  THEN s.censusStats.value.totalPopulation ELSE 0

\* ------------------------------------------------------------ debounce
\* The state of one _.debounce instance: whether its timer is set, whether a
\* call is remembered for the trailing edge (lastArgs), and the time of the
\* last call (<<>>: never called).
FreshDebounced == [timer |-> FALSE, lastArgs |-> FALSE, lastCallTime |-> <<>>]

shouldInvoke(d, time) ==
  \/ Len(d.lastCallTime) = 0
  \/ time - d.lastCallTime[1] >= DebounceWait
  \/ time - d.lastCallTime[1] < 0

\* debounced(): [d |-> the instance afterwards, invoke |-> whether func runs now].
\* With leading: true the leading edge invokes func and clears lastArgs.
DebounceCall(d, time) ==
  IF shouldInvoke(d, time) /\ ~d.timer
  THEN [d |-> [timer |-> TRUE, lastArgs |-> FALSE, lastCallTime |-> <<time>>],
        invoke |-> TRUE]
  ELSE [d |-> [timer |-> TRUE, lastArgs |-> TRUE, lastCallTime |-> <<time>>],
        invoke |-> FALSE]

\* ---------------------------------------------------------------- state
VARIABLES
  polygon,          \* prop polygon: a reference in PolyRefs
  currentHour,      \* the simulation clock behind prop currentDateTime
  loadedLayers,     \* ids t for which map.getLayer(`layer-${t}`) is defined
  highlight,        \* features of the 'selected-tracts' source (<<>>: none)
  stats,            \* useState stats of PopulationExposureCounter
  lastCalculation,  \* useRef memo of PopulationExposureCounter
  debounced,        \* the current debouncedCalculateExposure instance
  now,              \* wall clock, ms
  runs,             \* every invocation so far, with its position
  statsBy,          \* history: the run whose setStats was the last one (0: none)
  censusBy,         \* history: the run that wrote stats.censusStats (0: none)
  memoBy,           \* history: the run that wrote lastCalculation (0: none)
  caches,           \* the module-level caches of the census engine
  drawingMode,      \* useState drawingMode of MapComponent
  tempPolygon,      \* useState tempPolygon of MapComponent: the draft's points
  shape,            \* the points of the polygon set by finishDrawing (<<>>: none)
  hook,             \* one usePopulationExposure hook: its debounce, inputs, stats
  isPointSelected,  \* useState isPointSelected of MapComponent
  clicks            \* history: the map clicks and clearPolygon calls, in order

\* The state of MapComponent's drawing tools and the engine's module caches.
appVars == << hook, isPointSelected, clicks >>
mapVars == << caches, drawingMode, tempPolygon, shape, appVars >>

vars == << polygon, currentHour, loadedLayers, highlight, stats,
           lastCalculation, debounced, now, runs, statsBy, censusBy, memoBy,
           caches, drawingMode, tempPolygon, shape, hook, isPointSelected, clicks >>

\* censusCache, tractCalculationCache, selectedTractCache and dataCache as
\* the module declares them (null is the empty sequence).
EmptyCaches ==
  [censusCache |-> [data |-> <<>>, timestamp |-> <<>>],
   tractCalculationCache |-> [key |-> <<>>, data |-> <<>>, timestamp |-> <<>>],
   selectedTractCache |-> [polygon |-> <<>>, tracts |-> <<>>, bounds |-> <<>>],
   dataCache |-> [features |-> {}, lastRequest |-> <<>>, lastPolygon |-> <<>>,
                  lastResult |-> <<>>, initialized |-> FALSE]]

\* The hook before it is mounted. state: "none", "mounted" or "unmounted";
\* debounced: the current updateExposure instance; polygon, hour: the inputs
\* its closure holds; stats: the censusStats of the hook's state. History:
\* changes (the effect runs, with their time and inputs), unmountedAt.
NoHook ==
  [state |-> "none", debounced |-> FreshDebounced, polygon |-> 0, hour |-> 0,
   stats |-> [value |-> [present |-> FALSE, totalPopulation |-> Null, tractCount |-> 0],
              isLoading |-> TRUE, error |-> ErrNone, tractCount |-> 0],
   changes |-> <<>>, unmountedAt |-> <<>>]

NoMemo == [polygon |-> 0, time |-> <<>>, hasResult |-> FALSE, result |-> InitStats]

Init ==
  /\ polygon = 1
  /\ currentHour = 0
  /\ loadedLayers = {}
  /\ highlight = <<>>
  /\ stats = InitStats
  /\ lastCalculation = NoMemo
  /\ debounced = FreshDebounced
  /\ now = 0
  /\ runs = <<>>
  /\ statsBy = 0
  /\ censusBy = 0
  /\ memoBy = 0
  /\ caches = EmptyCaches
  /\ drawingMode = FALSE
  /\ tempPolygon = <<>>
  /\ shape = <<>>
  /\ hook = NoHook
  /\ isPointSelected = FALSE
  /\ clicks = <<>>

\* One invocation of calculateExposure ("calc") or of getSelectedCensusTracts
\* by another caller ("direct").
\* Modelled position and data: kind, polygon, dt, pc, hl (highlightResult's
\* features), results (what getSelectedCensusTracts and its populationPromise
\* resolved to, in order), fetch. History: at (time of the call), path,
\* nCand (candidates the renderer returned), threw (the census query threw),
\* sameAsLast (the last successful calculateExposure before this call had the
\* same polygon reference and instant), from (that run), priorDone (the runs
\* that had completed successfully before this call), wrote (setStats was
\* called), outcome, nInside (samples inside the polygon), pub (the stats
\* object this run passed to setStats), cand (the candidates the renderer
\* returned), inside (the samples inside the polygon).
Run(kind, p, dt, path, pc, answer, hl, results) ==
  [kind |-> kind, polygon |-> p, dt |-> dt, at |-> now, path |-> path, pc |-> pc,
   threw |-> answer.threw, nCand |-> Len(answer.features), cand |-> answer.features,
   hl |-> hl,
   results |-> results, fetch |-> "none",
   sameAsLast |-> /\ kind = "calc"
                  /\ memoBy # 0
                  /\ runs[memoBy].polygon = p
                  /\ runs[memoBy].dt = dt,
   from |-> memoBy,
   priorDone |-> { i \in 1..Len(runs) : runs[i].outcome = "published" },
   nInside |-> 0, inside |-> <<>>, wrote |-> FALSE, outcome |-> "none",
   pub |-> InitStats]

NoAnswer == [threw |-> FALSE, features |-> <<>>]

\* The renderer's answers to a query: it throws, or returns a feature list.
TractAnswers == { [threw |-> TRUE, features |-> <<>>] }
                \cup { [threw |-> FALSE, features |-> q] : q \in TractQueries }
SampleAnswers == { [threw |-> TRUE, features |-> <<>>] }
                 \cup { [threw |-> FALSE, features |-> q] : q \in SampleQueries }

\* highlightIntersectingTracts up to its return value: the intersecting
\* features, or <<>> for null (nothing rendered, nothing inside, or the query
\* threw and the catch returned null).
HighlightResult(answer, p) ==
  IF answer.threw THEN <<>> ELSE IntersectingFeatures(answer.features, PolyShape(p))

\* A memo check with the test of the stored result inverted.
MemoHitInverted(memo, p, timeKey) ==
  memo.polygon = p /\ memo.time = timeKey /\ ~memo.hasResult

\* A memo check that compares the polygon reference only.
MemoHitAnyTime(memo, p, timeKey) ==
  memo.polygon = p /\ memo.hasResult

\* The memo check of calculateExposure.
MemoHit(memo, p, timeKey) ==
  memo.polygon = p /\ memo.time = timeKey /\ memo.hasResult

\* calculateExposure from its call to its first await (or to its return).
CalcStart(p, h, TA) ==
  LET dt  == getCurrentDateTime(h)
      key == TimeKey(dt)
      id  == Len(runs) + 1
      ts  == getCurrentTilesetInfo(dt.date, dt.hour)
  IN  IF MemoHit(lastCalculation, p, key)
      THEN /\ stats' = lastCalculation.result
           /\ statsBy' = id
           /\ censusBy' = id
           /\ runs' = Append(runs, [Run("calc", p, dt, "memo", "done", NoAnswer, <<>>, <<>>)
                                      EXCEPT !.wrote = TRUE,
                                             !.pub = lastCalculation.result])
           /\ UNCHANGED << lastCalculation, memoBy, highlight >>
      ELSE IF Len(ts) = 0
      THEN /\ runs' = Append(runs, Run("calc", p, dt, "noTileset", "done", NoAnswer, <<>>, <<>>))
           /\ UNCHANGED << stats, statsBy, censusBy, lastCalculation, memoBy, highlight >>
      ELSE IF ts[1].id \notin loadedLayers
      THEN /\ stats' = WithExposureError(stats, ErrLoading)
           /\ statsBy' = id
           /\ runs' = Append(runs, [Run("calc", p, dt, "layerMissing", "done", NoAnswer, <<>>, <<>>)
                                      EXCEPT !.wrote = TRUE])
           /\ UNCHANGED << censusBy, lastCalculation, memoBy, highlight >>
      ELSE \E answer \in TA :
             LET hl == HighlightResult(answer, p)
             IN  /\ runs' = Append(runs, Run("calc", p, dt, "census", "awaitHighlight",
                                             answer, hl, <<>>))
                 /\ highlight' = IF Len(hl) > 0 THEN hl ELSE highlight
                 /\ UNCHANGED << stats, statsBy, censusBy, lastCalculation, memoBy >>

\* A render of the parent with props polygon p and the instant of hour h:
\* currentDateTime is a new object on every render, so calculateExposure and
\* the debounced function are new, the effect cleanup cancels the old instance
\* and the effect calls the new one. isDarkMode only selects paint colours: a
\* render with unchanged (p, h) stands for a theme change.
Render(p, h, TA, max) ==
  /\ Len(runs) < max
  /\ polygon' = p
  /\ currentHour' = h
  /\ LET call == DebounceCall(FreshDebounced, now)
     IN  /\ debounced' = call.d
         /\ IF call.invoke THEN CalcStart(p, h, TA)
            ELSE UNCHANGED << stats, statsBy, censusBy, lastCalculation, memoBy, highlight, runs >>
  /\ UNCHANGED << mapVars, loadedLayers, now >>

\* timerExpired of the debounce instance: the trailing edge invokes func only
\* when a call is remembered.
TimerExpired(TA, max) ==
  /\ debounced.timer
  /\ shouldInvoke(debounced, now)
  /\ debounced' = [debounced EXCEPT !.timer = FALSE, !.lastArgs = FALSE]
  /\ IF debounced.lastArgs /\ Len(runs) < max
     THEN CalcStart(polygon, currentHour, TA)
     ELSE UNCHANGED << stats, statsBy, censusBy, lastCalculation, memoBy, highlight, runs >>
  /\ UNCHANGED << mapVars, polygon, currentHour, loadedLayers, now >>

Tick ==
  /\ now + TickMs <= MaxTime
  /\ now' = now + TickMs
  /\ UNCHANGED << mapVars, polygon, currentHour, loadedLayers, highlight, stats,
                  lastCalculation, debounced, runs, statsBy, censusBy, memoBy >>

\* useMapLayers adds the concentration layer of a tileset.
LoadLayer(t) ==
  /\ t \notin loadedLayers
  /\ loadedLayers' = loadedLayers \cup {t}
  /\ UNCHANGED << mapVars, polygon, currentHour, highlight, stats,
                  lastCalculation, debounced, now, runs, statsBy, censusBy, memoBy >>

\* getSelectedCensusTracts called by another caller (handleMapClick, the
\* usePopulationExposure hook) with polygon p, 0 for a missing polygon.
DirectCall(p, TA, max) ==
  /\ Len(runs) < max
  /\ IF p = 0
     THEN /\ runs' = Append(runs, Run("direct", p, getCurrentDateTime(currentHour), "guard",
                                      "done", NoAnswer, <<>>,
                                      << Result("error", 0, 0, NoTracts) >>))
          /\ UNCHANGED highlight
     ELSE \E answer \in TA :
            LET hl == HighlightResult(answer, p)
            IN  /\ runs' = Append(runs, Run("direct", p, getCurrentDateTime(currentHour),
                                            "census", "awaitHighlight", answer, hl, <<>>))
                /\ highlight' = IF Len(hl) > 0 THEN hl ELSE highlight
  /\ UNCHANGED << mapVars, polygon, currentHour, loadedLayers, stats,
                  lastCalculation, debounced, now, statsBy, censusBy, memoBy >>

\* getSelectedCensusTracts after `await highlightIntersectingTracts`: it
\* returns the first result and, with units found, has called
\* calculatePopulation(), whose fetch is now outstanding.
CensusReturn(i) ==
  /\ runs[i].pc = "awaitHighlight"
  /\ runs' = [runs EXCEPT ![i].results = << FirstResult(runs[i].hl) >>,
                          ![i].fetch = IF StartsPopulation(runs[i].hl) THEN "pending" ELSE "none",
                          ![i].pc = IF runs[i].kind = "calc" THEN "awaitCensus" ELSE "done"]
  /\ UNCHANGED << mapVars, polygon, currentHour, loadedLayers, highlight, stats,
                  lastCalculation, debounced, now, statsBy, censusBy, memoBy >>

\* fetchCensusPopulation settles and calculatePopulation resolves the
\* populationPromise with the second-stage result.
FetchSettle(i, fetchOk) ==
  /\ runs[i].fetch = "pending"
  /\ runs' = [runs EXCEPT ![i].results = Append(@, calculatePopulation(runs[i].hl, fetchOk)),
                          ![i].fetch = IF fetchOk THEN "ok" ELSE "failed"]
  /\ UNCHANGED << mapVars, polygon, currentHour, loadedLayers, highlight, stats,
                  lastCalculation, debounced, now, statsBy, censusBy, memoBy >>

\* ------------------------------------------------------------- drawing
\* The locations a click can report (e.lngLat).
DrawPoints == { <<0, 0>>, <<4, 0>>, <<4, 4>>, <<0, 4>>, <<1, 2>> }

\* The reference of the array finishDrawing builds.
DrawnRef == 3

\* startDrawing (the same in both versions of MapComponent).
startDrawing ==
  /\ drawingMode' = TRUE
  /\ tempPolygon' = <<>>
  /\ polygon' = 0
  /\ shape' = <<>>
  /\ UNCHANGED << appVars, caches, currentHour, loadedLayers, highlight, stats, lastCalculation,
                  debounced, now, runs, statsBy, censusBy, memoBy >>

\* handleMapClick of the earlier MapComponent: in drawing mode a click appends
\* its location to the draft. (The current MapComponent has no handler that
\* appends a point; its finishDrawing is modelled on the same drafts.)
handleMapClickDrawing(pt) ==
  /\ drawingMode
  /\ Len(tempPolygon) < MaxDraft
  /\ tempPolygon' = Append(tempPolygon, pt)
  /\ UNCHANGED << appVars, caches, drawingMode, shape, polygon, currentHour, loadedLayers, highlight,
                  stats, lastCalculation, debounced, now, runs, statsBy, censusBy, memoBy >>

\* finishDrawing of the earlier MapComponent: nothing happens for a draft of
\* fewer than 3 points.
finishDrawingEarlier ==
  /\ drawingMode
  /\ IF Len(tempPolygon) >= 3
     THEN /\ polygon' = DrawnRef
          /\ shape' = Append(tempPolygon, tempPolygon[1])
          /\ drawingMode' = FALSE
          /\ tempPolygon' = <<>>
     ELSE UNCHANGED << polygon, shape, drawingMode, tempPolygon >>
  /\ UNCHANGED << appVars, caches, currentHour, loadedLayers, highlight, stats, lastCalculation,
                  debounced, now, runs, statsBy, censusBy, memoBy >>

\* finishDrawing of the current MapComponent: it always leaves drawing mode
\* and drops the draft.
finishDrawing ==
  /\ drawingMode
  /\ IF Len(tempPolygon) >= 3
     THEN /\ polygon' = DrawnRef
          /\ shape' = Append(tempPolygon, tempPolygon[1])
     ELSE UNCHANGED << polygon, shape >>
  /\ drawingMode' = FALSE
  /\ tempPolygon' = <<>>
  /\ UNCHANGED << appVars, caches, currentHour, loadedLayers, highlight, stats, lastCalculation,
                  debounced, now, runs, statsBy, censusBy, memoBy >>

\* clearCaches: it resets censusCache, tractCalculationCache and
\* selectedTractCache; it does not touch dataCache nor anything of the
\* component (lastCalculation, stats, the debounce instance).
clearCaches(max) ==
  /\ Len(runs) < max
  /\ caches' = [caches EXCEPT
                  !.censusCache = [data |-> <<>>, timestamp |-> <<>>],
                  !.tractCalculationCache = [key |-> <<>>, data |-> <<>>, timestamp |-> <<>>],
                  !.selectedTractCache = [polygon |-> <<>>, tracts |-> <<>>, bounds |-> <<>>]]
  /\ runs' = Append(runs, Run("clear", 0, getCurrentDateTime(currentHour), "clear", "done",
                              NoAnswer, <<>>, <<>>))
  /\ UNCHANGED << appVars, drawingMode, tempPolygon, shape, polygon, currentHour, loadedLayers,
                  highlight, stats, lastCalculation, debounced, now, statsBy, censusBy, memoBy >>

\* calculateExposure without its catch block: the exception leaves the
\* async function and nothing is published.
CatchCalcMissing(prev) == [outcome |-> "uncaught", stats |-> prev]

\* The catch block of calculateExposure.
CatchCalc(prev) == [outcome |-> "caught", stats |-> WithExposureError(prev, ErrFailed)]

\* calculateExposure after `await getSelectedCensusTracts`: the sample query,
\* the distribution, the memo update and setStats; or the catch block.
CalcResume(i, SA) ==
  /\ runs[i].pc = "awaitCensus"
  /\ \E answer \in SA :
       LET censusData == runs[i].results[1]
           inside == InsideSamples(answer.features, PolyShape(runs[i].polygon))
           newStats == NewStats(censusData, inside)
       IN  IF answer.threw
           THEN LET c == CatchCalc(stats)
                IN  /\ stats' = c.stats
                    /\ statsBy' = i
                    /\ runs' = [runs EXCEPT ![i].pc = "done", ![i].wrote = TRUE,
                                            ![i].outcome = c.outcome]
                    /\ UNCHANGED << lastCalculation, censusBy, memoBy >>
           ELSE /\ lastCalculation' = [polygon |-> runs[i].polygon,
                                       time |-> TimeKey(runs[i].dt),
                                       hasResult |-> TRUE, result |-> newStats]
                /\ stats' = newStats
                /\ statsBy' = i
                /\ censusBy' = i
                /\ memoBy' = i
                /\ runs' = [runs EXCEPT ![i].pc = "done", ![i].wrote = TRUE,
                                        ![i].outcome = "published",
                                        ![i].nInside = Len(inside),
                                        ![i].inside = inside, ![i].pub = newStats]
  /\ UNCHANGED << mapVars, polygon, currentHour, loadedLayers, highlight,
                  debounced, now >>

\* The renderer answers SpecFlow explores: units found or nothing rendered,
\* samples found or the sample query throwing.
FlowTractAnswers == { [threw |-> FALSE, features |-> <<1, 2>>] }
FlowSampleAnswers ==
  { [threw |-> TRUE, features |-> <<>>],
    [threw |-> FALSE, features |-> << Sample(5, 5, Num(12)), Sample(6, 6, Num(12)) >>] }

TilesetIds == { TILESET_INFO[k].id : k \in 1..Len(TILESET_INFO) }

\* The engine with every renderer answer and few invocations.
Next ==
  \/ \E p \in PolyRefs, h \in Hours : Render(p, h, TractAnswers, MaxRequests)
  \/ \E t \in TilesetIds : LoadLayer(t)
  \/ \E p \in PolyRefs \cup {0} : DirectCall(p, TractAnswers, MaxRequests)
  \/ \E i \in 1..Len(runs) : CensusReturn(i)
  \/ \E i \in 1..Len(runs), fetchOk \in BOOLEAN : FetchSettle(i, fetchOk)
  \/ \E i \in 1..Len(runs) : CalcResume(i, SampleAnswers)

Spec == Init /\ [][Next]_vars

\* getSelectedCensusTracts alone, called by its other callers.
NextCensus ==
  \/ \E p \in PolyRefs \cup {0} : DirectCall(p, TractAnswers, MaxCalls)
  \/ \E i \in 1..Len(runs) : CensusReturn(i)
  \/ \E i \in 1..Len(runs), fetchOk \in BOOLEAN : FetchSettle(i, fetchOk)

SpecCensus == Init /\ [][NextCensus]_vars

\* PopulationExposureCounter alone, mounted once the concentration layer of
\* the first tileset is loaded, with few renderer answers and more invocations.
InitFlow ==
  /\ polygon = 1
  /\ currentHour = 0
  /\ loadedLayers = {TILESET_INFO[1].id}
  /\ highlight = <<>>
  /\ stats = InitStats
  /\ lastCalculation = NoMemo
  /\ debounced = FreshDebounced
  /\ now = 0
  /\ runs = <<>>
  /\ statsBy = 0
  /\ censusBy = 0
  /\ memoBy = 0
  /\ caches = EmptyCaches
  /\ drawingMode = FALSE
  /\ tempPolygon = <<>>
  /\ shape = <<>>
  /\ hook = NoHook
  /\ isPointSelected = FALSE
  /\ clicks = <<>>

NextFlow ==
  \/ \E p \in PolyRefs, h \in Hours : Render(p, h, FlowTractAnswers, MaxInvoke)
  \/ \E t \in TilesetIds : LoadLayer(t)
  \/ \E i \in 1..Len(runs) : CensusReturn(i)
  \/ \E i \in 1..Len(runs) : CalcResume(i, FlowSampleAnswers)

SpecFlow == InitFlow /\ [][NextFlow]_vars

\* PopulationExposureCounter with its debounce timer and the wall clock.
NextDebounce ==
  \/ \E p \in PolyRefs, h \in Hours : Render(p, h, FlowTractAnswers, MaxRenders)
  \/ TimerExpired(FlowTractAnswers, MaxRenders)
  \/ Tick
  \/ \E t \in TilesetIds : LoadLayer(t)
  \/ \E i \in 1..Len(runs) : CensusReturn(i)
  \/ \E i \in 1..Len(runs) : CalcResume(i, FlowSampleAnswers)

SpecDebounce == InitFlow /\ [][NextDebounce]_vars

\* PopulationExposureCounter mounted before any concentration layer is loaded,
\* with a renderer that finds units, finds nothing or throws.
RecoverTractAnswers ==
  { [threw |-> TRUE, features |-> <<>>],
    [threw |-> FALSE, features |-> <<>>],
    [threw |-> FALSE, features |-> <<1, 2>>] }

NextRecover ==
  \/ \E p \in PolyRefs, h \in Hours : Render(p, h, RecoverTractAnswers, MaxRecover)
  \/ \E t \in TilesetIds : LoadLayer(t)
  \/ \E i \in 1..Len(runs) : CensusReturn(i)
  \/ \E i \in 1..Len(runs) : CalcResume(i, FlowSampleAnswers)

SpecRecover == Init /\ [][NextRecover]_vars

\* PopulationExposureCounter and the application-level reset.
NextReset ==
  \/ \E p \in PolyRefs, h \in Hours : Render(p, h, FlowTractAnswers, MaxReset)
  \/ clearCaches(MaxReset)
  \/ \E i \in 1..Len(runs) : CensusReturn(i)
  \/ \E i \in 1..Len(runs) : CalcResume(i, FlowSampleAnswers)

SpecReset == InitFlow /\ [][NextReset]_vars

\* MapComponent's drawing tools: no polygon is set when the map is mounted.
InitDraw ==
  /\ polygon = 0
  /\ currentHour = 0
  /\ loadedLayers = {}
  /\ highlight = <<>>
  /\ stats = InitStats
  /\ lastCalculation = NoMemo
  /\ debounced = FreshDebounced
  /\ now = 0
  /\ runs = <<>>
  /\ statsBy = 0
  /\ censusBy = 0
  /\ memoBy = 0
  /\ caches = EmptyCaches
  /\ drawingMode = FALSE
  /\ tempPolygon = <<>>
  /\ shape = <<>>
  /\ hook = NoHook
  /\ isPointSelected = FALSE
  /\ clicks = <<>>

NextDraw ==
  \/ startDrawing
  \/ \E pt \in DrawPoints : handleMapClickDrawing(pt)
  \/ finishDrawingEarlier
  \/ finishDrawing

SpecDraw == InitDraw /\ [][NextDraw]_vars

\* ------------------------------------------------ usePopulationExposure
\* The wait of the hook's _.debounce.
HookWait == 500

\* The amounts of time that pass between two steps of the hook.
TickSteps == { 250, 500 }

\* The inputs the component hands to the hook: polygon (0: null) and the hour
\* of currentDateTime.
HookPolygons == { 0 } \cup PolyRefs
HookHours == { 0, 1 }

\* A debounce whose call invokes func on the leading edge.
DebounceCallLeading(d, time) ==
  [d |-> [timer |-> TRUE, lastArgs |-> FALSE, lastCallTime |-> <<time>>],
   invoke |-> TRUE]

\* debounced() of _.debounce(func, 500) with the default options (leading:
\* false, trailing: true): the call is remembered and the timer runs.
DebounceCallTrailing(d, time) ==
  [d |-> [timer |-> TRUE, lastArgs |-> TRUE, lastCallTime |-> <<time>>],
   invoke |-> FALSE]

\* The debounced function up to its first await: with a polygon it calls
\* getSelectedCensusTracts, which runs to `await highlightIntersectingTracts`.
HookFunc(p, h, answer) ==
  IF p = 0
  THEN [runs |-> runs, highlight |-> highlight]
  ELSE LET hl == HighlightResult(answer, p)
       IN  [runs |-> Append(runs, Run("hook", p, getCurrentDateTime(h), "census",
                                      "awaitHighlight", answer, hl, <<>>)),
            highlight |-> IF Len(hl) > 0 THEN hl ELSE highlight]

\* A render with new inputs (or the mount): useCallback makes a new debounced
\* function, the effect's cleanup cancels the old one and the effect calls the
\* new one.
HookChange(p, h, TA) ==
  /\ hook.state # "unmounted"
  /\ Len(hook.changes) < MaxChanges
  /\ LET call == DebounceCallTrailing(FreshDebounced, now)
     IN  /\ hook' = [hook EXCEPT !.state = "mounted",
                                 !.debounced = call.d,
                                 !.polygon = p,
                                 !.hour = h,
                                 !.changes = Append(@, [at |-> now, polygon |-> p,
                                                        hour |-> h])]
         /\ \E answer \in TA :
              LET out == IF call.invoke THEN HookFunc(p, h, answer)
                         ELSE [runs |-> runs, highlight |-> highlight]
              IN  /\ runs' = out.runs
                  /\ highlight' = out.highlight
  /\ UNCHANGED << isPointSelected, clicks, caches, drawingMode, tempPolygon, shape,
                  polygon, currentHour, loadedLayers, stats, lastCalculation,
                  debounced, now, statsBy, censusBy, memoBy >>

\* The timer of the current debounced function expires: the trailing edge
\* invokes func with the inputs its closure holds.
HookTimerExpired(TA) ==
  /\ hook.state = "mounted"
  /\ hook.debounced.timer
  /\ now - hook.debounced.lastCallTime[1] >= HookWait
  /\ hook' = [hook EXCEPT !.debounced.timer = FALSE, !.debounced.lastArgs = FALSE]
  /\ \E answer \in TA :
       LET out == IF hook.debounced.lastArgs THEN HookFunc(hook.polygon, hook.hour, answer)
                  ELSE [runs |-> runs, highlight |-> highlight]
       IN  /\ runs' = out.runs
           /\ highlight' = out.highlight
  /\ UNCHANGED << isPointSelected, clicks, caches, drawingMode, tempPolygon, shape,
                  polygon, currentHour, loadedLayers, stats, lastCalculation,
                  debounced, now, statsBy, censusBy, memoBy >>

\* The component unmounts: the effect's cleanup cancels the debounced function.
HookUnmount ==
  /\ hook.state = "mounted"
  /\ hook' = [hook EXCEPT !.state = "unmounted",
                          !.debounced = FreshDebounced,
                          !.unmountedAt = <<now>>]
  /\ UNCHANGED << isPointSelected, clicks, caches, drawingMode, tempPolygon, shape,
                  polygon, currentHour, loadedLayers, highlight, stats, lastCalculation,
                  debounced, now, runs, statsBy, censusBy, memoBy >>

\* `await getSelectedCensusTracts` returns to the hook, which sets censusStats
\* from the first result.
HookCensusReturn(i) ==
  /\ runs[i].kind = "hook"
  /\ runs[i].pc = "awaitHighlight"
  /\ LET censusData == FirstResult(runs[i].hl)
     IN  /\ runs' = [runs EXCEPT ![i].results = << censusData >>,
                                 ![i].fetch = IF StartsPopulation(runs[i].hl)
                                              THEN "pending" ELSE "none",
                                 ![i].pc = "done"]
         /\ hook' = [hook EXCEPT !.stats =
                       [value |-> [present |-> TRUE,
                                   totalPopulation |-> censusData.totalPopulation,
                                   tractCount |-> censusData.tractCount],
                        isLoading |-> FALSE, error |-> ErrNone,
                        tractCount |-> Cardinality(DOMAIN censusData.tracts)]]
  /\ UNCHANGED << isPointSelected, clicks, caches, drawingMode, tempPolygon, shape,
                  polygon, currentHour, loadedLayers, highlight, stats, lastCalculation,
                  debounced, now, statsBy, censusBy, memoBy >>

\* Time passes; a timer that is due fires before time passes it.
HookTick(d) ==
  /\ now + d <= MaxHookTime
  /\ hook.debounced.timer => now + d <= hook.debounced.lastCallTime[1] + HookWait
  /\ now' = now + d
  /\ UNCHANGED << hook, isPointSelected, clicks, caches, drawingMode, tempPolygon, shape,
                  polygon, currentHour, loadedLayers, highlight, stats, lastCalculation,
                  debounced, runs, statsBy, censusBy, memoBy >>

NextHook ==
  \/ \E p \in HookPolygons, h \in HookHours : HookChange(p, h, FlowTractAnswers)
  \/ HookTimerExpired(FlowTractAnswers)
  \/ HookUnmount
  \/ \E i \in 1..Len(runs) : HookCensusReturn(i)
  \/ \E d \in TickSteps : HookTick(d)

SpecHook == InitDraw /\ [][NextHook]_vars


\* ------------------------------------------------------ point selection
\* How `await handleEnhancedMapClick(...)` can end for its caller.
SelectionOutcomes == { "resolved", "rejected" }

\* An entry of the history of clicks: a map click (kind "click", with the
\* reference p of the polygon its selection builds) or a clearPolygon call
\* (kind "clear"). pc of a click: "ignored" (the guard was false),
\* "awaitSelection", "failed" (caught) or "requested" (polygon set and
\* getSelectedCensusTracts called, as run number run).
ClickEvent(kind, p, pc) == [kind |-> kind, p |-> p, pc |-> pc, run |-> 0]

\* handleMapClick of the point-selection MapComponent, to its first await.
handleMapClick(p) ==
  /\ Len(clicks) < MaxClicks
  /\ clicks' = Append(clicks, ClickEvent("click", p,
                                         IF ~isPointSelected THEN "awaitSelection"
                                         ELSE "ignored"))
  /\ UNCHANGED << hook, isPointSelected, caches, drawingMode, tempPolygon, shape,
                  polygon, currentHour, loadedLayers, highlight, stats, lastCalculation,
                  debounced, now, runs, statsBy, censusBy, memoBy >>

\* handleMapClick after `await handleEnhancedMapClick`: the catch, or
\* setPolygon, setIsPointSelected(true) and the call of getSelectedCensusTracts
\* (which runs to `await highlightIntersectingTracts`).
SelectionResolved(k, outcome, TA) ==
  /\ clicks[k].pc = "awaitSelection"
  /\ IF outcome = "rejected"
     THEN /\ clicks' = [clicks EXCEPT ![k].pc = "failed"]
          /\ UNCHANGED << polygon, isPointSelected, runs, highlight >>
     ELSE \E answer \in TA :
            LET hl == HighlightResult(answer, clicks[k].p)
            IN  /\ polygon' = clicks[k].p
                /\ isPointSelected' = TRUE
                /\ runs' = Append(runs, Run("select", clicks[k].p,
                                            getCurrentDateTime(currentHour), "census",
                                            "awaitHighlight", answer, hl, <<>>))
                /\ highlight' = IF Len(hl) > 0 THEN hl ELSE highlight
                /\ clicks' = [clicks EXCEPT ![k].pc = "requested",
                                            ![k].run = Len(runs) + 1]
  /\ UNCHANGED << hook, caches, drawingMode, tempPolygon, shape, currentHour,
                  loadedLayers, stats, lastCalculation, debounced, now, statsBy,
                  censusBy, memoBy >>

\* clearPolygon of the point-selection MapComponent.
clearPolygon ==
  /\ Len(clicks) < MaxClicks
  /\ highlight' = IF polygon # 0 THEN <<>> ELSE highlight
  /\ polygon' = 0
  /\ shape' = <<>>
  /\ tempPolygon' = <<>>
  /\ drawingMode' = FALSE
  /\ isPointSelected' = FALSE
  /\ clicks' = Append(clicks, ClickEvent("clear", 0, "done"))
  /\ UNCHANGED << hook, caches, currentHour, loadedLayers, stats, lastCalculation,
                  debounced, now, runs, statsBy, censusBy, memoBy >>

NextSelect ==
  \/ \E p \in PolyRefs : handleMapClick(p)
  \/ \E k \in 1..Len(clicks), outcome \in SelectionOutcomes :
       SelectionResolved(k, outcome, FlowTractAnswers)
  \/ clearPolygon
  \/ \E i \in 1..Len(runs) : CensusReturn(i)

SpecSelect == InitDraw /\ [][NextSelect]_vars

\* ================================================================ claims
CalcRuns == { i \in 1..Len(runs) : runs[i].kind = "calc" }
Inputs(i) == << runs[i].polygon, runs[i].dt >>

\* The populations the table holds for a list of features, added up.
RECURSIVE SumPop(_, _)
SumPop(features, i) ==
  IF i > Len(features) THEN 0
  ELSE LET g == Tract(features[i]).geoid
       IN  (IF g \in DOMAIN PopTable THEN PopTable[g] ELSE 0) + SumPop(features, i + 1)

AllValidGeoids(features) ==
  \A k \in 1..Len(features) : isValidGEOID(Tract(features[k]).geoid)

\* The sum a caller gets from adding up the distribution's values in
\* JavaScript, where null counts as 0.
RECURSIVE JsSum(_, _)
JsSum(dist, labels) ==
  IF labels = {} THEN 0
  ELSE LET l == CHOOSE x \in labels : TRUE
       IN  (IF dist[l] = Null THEN 0 ELSE dist[l]) + JsSum(dist, labels \ {l})

\* C1: a calculateExposure run for older inputs never writes the published
\* stats after a run for newer inputs has written them: the last setStats is
\* always that of the newest run that has published.
C1_StaleNeverOverwrites ==
  \A i \in CalcRuns : runs[i].wrote => statsBy >= i

\* C2: when the inputs change twice within the debounce window, no execution
\* of calculateExposure reaches the census stage for the superseded first
\* inputs. (Every render calls calculateExposure, so runs lists the renders.)
C2_OnlyFinalInputsExecute ==
  \A i \in CalcRuns, j \in CalcRuns :
    (j = i + 1 /\ runs[j].at - runs[i].at < DebounceWait /\ Inputs(i) # Inputs(j))
      => runs[i].path # "census"

\* C3 as stated: once a run has completed successfully for (P, T), every
\* later call with the same P and T is served from the memo and calls
\* neither the resolver nor the sample query.
C3_EveryLaterCallHitsMemo ==
  \A j \in CalcRuns :
    \A i \in runs[j].priorDone :
      Inputs(i) = Inputs(j) => (runs[j].path = "memo" /\ runs[j].results = <<>>)

\* C3 as amended: a call whose polygon reference and instant are those of the
\* last successfully completed calculateExposure run publishes that run's
\* result and calls neither getSelectedCensusTracts nor the sample query.
C3_CallAfterSameInputsHitsMemo ==
  \A j \in CalcRuns :
    runs[j].sameAsLast =>
      /\ runs[j].path = "memo"
      /\ runs[j].pc = "done"
      /\ runs[j].results = <<>>
      /\ runs[j].wrote
      /\ runs[j].pub = runs[runs[j].from].pub

C3_Witness ==
  \E j \in CalcRuns :
    /\ runs[j].sameAsLast
    /\ runs[j].path = "memo"
    /\ stats = runs[runs[j].from].pub
    /\ runs[runs[j].from].nInside > 0

\* C4: for a polygon with n >= 1 resolved units, all with a valid GEOID, and
\* a loaded tileset layer, the published result has totalPopulation equal to
\* the sum of the units' populations and tractCount equal to n.
C4_PublishedTotals ==
  \A i \in CalcRuns :
    (runs[i].outcome = "published" /\ Len(runs[i].hl) >= 1 /\ AllValidGeoids(runs[i].hl))
      => /\ runs[i].pub.censusStats.value.totalPopulation = SumPop(runs[i].hl, 1)
         /\ runs[i].pub.censusStats.tractCount = Len(runs[i].hl)

\* C5: in every published result, with a sample inside the polygon the
\* distribution's values sum to totalPopulation; with none inside, every
\* value is 0, the average is 0 and no error is set.
C5_DistributionSums ==
  \A i \in CalcRuns :
    runs[i].outcome = "published" =>
      LET pub == runs[i].pub
      IN  IF runs[i].nInside > 0
          THEN JsSum(pub.exposureByPM25.value.dist, Labels)
                 = pub.censusStats.value.totalPopulation
          ELSE /\ \A l \in Labels : pub.exposureByPM25.value.dist[l] = 0
               /\ pub.censusStats.value.avgPM25[1] = 0
               /\ pub.censusStats.error = ErrNone
               /\ pub.exposureByPM25.error = ErrNone

\* C6: a request whose resolver finds units returns first a result with
\* status 'calculating', totalPopulation null and the number of intersecting
\* units; the second-stage result ('complete' or 'error') comes after it; a
\* request has at most two results, and exactly one when it ends in
\* 'noTracts' or in a first-stage 'error'.
C6_TwoStagesInOrder ==
  \A i \in 1..Len(runs) :
    LET r == runs[i].results
    IN  /\ Len(r) <= 2
        /\ (Len(r) >= 1 /\ Len(runs[i].hl) > 0) =>
             /\ r[1].status = "calculating"
             /\ r[1].totalPopulation = Null
             /\ r[1].tractCount = Len(runs[i].hl)
        /\ Len(r) = 2 =>
             /\ r[1].status = "calculating"
             /\ r[2].status \in {"complete", "error"}
        /\ (Len(r) >= 1 /\ r[1].status \in {"noTracts", "error"}) =>
             /\ Len(r) = 1
             /\ runs[i].fetch = "none"
        /\ (Len(r) = 0) => runs[i].fetch = "none"

C6_Witness ==
  /\ \E i \in 1..Len(runs) :
       /\ Len(runs[i].results) = 2
       /\ runs[i].results[1].tractCount = 2
       /\ runs[i].results[2].status = "complete"
  /\ \E i \in 1..Len(runs) :
       /\ Len(runs[i].results) = 1
       /\ runs[i].results[1].status = "error"

\* C7: when the resolver finds no intersecting unit (nothing rendered, or no
\* candidate with a vertex inside the polygon), the request has the single
\* result 'noTracts' with totalPopulation 0 and tractCount 0 and never starts
\* a population fetch.
C7_NoTractsIsTerminal ==
  \A i \in 1..Len(runs) :
    (runs[i].path = "census" /\ Len(runs[i].hl) = 0) =>
      /\ runs[i].fetch = "none"
      /\ runs[i].pc # "awaitHighlight" =>
           runs[i].results = << Result("noTracts", 0, 0, NoTracts) >>

C7_Witness ==
  /\ \E i \in 1..Len(runs) :
       /\ runs[i].nCand = 0 /\ ~runs[i].threw
       /\ Len(runs[i].results) = 1 /\ runs[i].results[1].status = "noTracts"
  /\ \E i \in 1..Len(runs) :
       /\ runs[i].nCand > 0 /\ Len(runs[i].hl) = 0
       /\ Len(runs[i].results) = 1 /\ runs[i].results[1].status = "noTracts"

\* C8: for an instant in a tileset gap, a finished calculateExposure call has
\* reported the exposure as unavailable and has run the census stage.
C8_GapStillRunsCensus ==
  \A i \in CalcRuns :
    (Len(getCurrentTilesetInfo(runs[i].dt.date, runs[i].dt.hour)) = 0 /\ runs[i].pc = "done")
      => /\ runs[i].wrote
         /\ Len(runs[i].results) >= 1

\* C9: no promise of getSelectedCensusTracts or calculatePopulation rejects
\* and no exception leaves calculateExposure: a failed population fetch gives
\* the second-stage result 'error', a throwing census query gives 'noTracts',
\* and a throwing sample query gives the error state of the stats.
C9_ErrorsAreCaught ==
  \A i \in 1..Len(runs) :
    /\ \A k \in 1..Len(runs[i].results) :
         runs[i].results[k].status \in {"calculating", "complete", "error", "noTracts"}
    /\ runs[i].fetch = "failed" =>
         /\ Len(runs[i].results) = 2
         /\ runs[i].results[2].status = "error"
    /\ (runs[i].threw /\ Len(runs[i].results) >= 1) =>
         runs[i].results[1].status = "noTracts"
    /\ runs[i].outcome # "uncaught"
    /\ (runs[i].outcome = "caught" /\ statsBy = i) =>
         /\ stats.exposureByPM25.error = ErrFailed
         /\ ~stats.exposureByPM25.isLoading

C9_Witness ==
  \E i \in CalcRuns :
    /\ runs[i].outcome = "caught"
    /\ runs[i].fetch = "failed"
    /\ stats.exposureByPM25.error = ErrFailed

\* C10: the counter never shows a population of 0 with no error and not
\* loading unless the resolver really found no unit or the aggregate of the
\* found units was computed and is 0.
C10_NoSilentZero ==
  (/\ censusBy # 0
   /\ ~stats.censusStats.isLoading
   /\ stats.censusStats.error = ErrNone
   /\ RenderedPopulation(stats) = 0)
    => LET src == IF runs[censusBy].path = "memo" THEN runs[censusBy].from ELSE censusBy
           r == runs[src]
       IN  /\ ~r.threw
           /\ \/ r.nCand = 0
              \/ /\ r.fetch = "ok"
                 /\ r.results[2].totalPopulation = 0
                 /\ stats.censusStats.value.totalPopulation = 0

\* A calculateExposure run that ended without a completed result for units:
\* the catch block ran, the layer was not loaded, the instant had no tileset,
\* or the resolver found no unit.
Terminal(i) ==
  /\ runs[i].kind = "calc"
  /\ runs[i].pc = "done"
  /\ \/ runs[i].outcome = "caught"
     \/ runs[i].path \in {"layerMissing", "noTileset"}
     \/ (Len(runs[i].results) >= 1 /\ runs[i].results[1].status = "noTracts")

\* C11: after a request has ended in error, noTracts, layer-not-loaded or
\* no-tileset, a change of the inputs starts a calculateExposure call at once,
\* and that call is served from the memo only when the memo holds a completed
\* result for exactly its inputs; otherwise it takes the path its own inputs
\* dictate (no tileset, layer not loaded, or the census stage).
C11_NextRequestProceeds ==
  [][ (/\ \E i \in 1..Len(runs) : Terminal(i)
       /\ (polygon' # polygon \/ currentHour' # currentHour))
      => /\ Len(runs') = Len(runs) + 1
         /\ LET r == runs'[Len(runs')]
                ts == getCurrentTilesetInfo(r.dt.date, r.dt.hour)
            IN  /\ r.kind = "calc"
                /\ r.polygon = polygon'
                /\ r.dt = getCurrentDateTime(currentHour')
                /\ r.path = IF r.sameAsLast THEN "memo"
                            ELSE IF Len(ts) = 0 THEN "noTileset"
                            ELSE IF ts[1].id \notin loadedLayers THEN "layerMissing"
                            ELSE "census" ]_vars

C11_Witness ==
  \E i \in CalcRuns, j \in CalcRuns :
    /\ i < j
    /\ Terminal(i)
    /\ runs[i].outcome = "caught"
    /\ Inputs(i) # Inputs(j)
    /\ runs[j].outcome = "published"
    /\ Len(runs[j].hl) > 0
    /\ statsBy = j
    /\ ~stats.censusStats.isLoading
    /\ stats.exposureByPM25.error = ErrNone

\* C12: at most one bulk population fetch (a call of fetchCensusPopulation
\* that has not settled) is outstanding at any moment.
C12_SingleFetchOutstanding ==
  Cardinality({ i \in 1..Len(runs) : runs[i].fetch = "pending" }) <= 1

\* C13: once clearCaches has returned, the engine's caches are empty and the
\* last-calculation memo holds nothing written before the call (it stays
\* empty until a later completion writes it), so no later request is served
\* from a memo entry written before the clearCaches call.
C13_ResetEmptiesEverything ==
  \A k \in 1..Len(runs) :
    runs[k].kind = "clear" =>
      /\ caches = EmptyCaches
      /\ (memoBy = 0 \/ memoBy \in runs[k].priorDone) => lastCalculation = NoMemo
      /\ \A j \in CalcRuns :
           (k < j /\ runs[j].path = "memo") => runs[j].from \notin runs[k].priorDone

\* The samples of a list whose PM25 value is numeric.
NumericSamples(features) == SelectSeq(features, LAMBDA f : Len(parseFloat(f.PM25)) > 0)

\* C14: with at least one sample inside the polygon (and one of them
\* numeric), the published average is the sum of the numeric values divided
\* by the number of samples with a numeric value.
C14_AverageSkipsNonNumeric ==
  \A i \in CalcRuns :
    (runs[i].outcome = "published" /\ Len(NumericSamples(runs[i].inside)) > 0) =>
      LET avg == runs[i].pub.censusStats.value.avgPM25
          numeric == NumericSamples(runs[i].inside)
      IN  avg[1] * Len(numeric) = SumPM25(numeric, 1) * avg[2]

\* The bins whose lower bound is at most the mean m = <<numerator, denominator>>.
BinsAtMost(m) == { k \in 1..Len(PM25_LEVELS) : PM25_LEVELS[k].value * m[2] <= m[1] }

\* The thresholds of the bin table are strictly increasing.
StrictlyIncreasing ==
  \A k \in 1..(Len(PM25_LEVELS) - 1) : PM25_LEVELS[k].value < PM25_LEVELS[k + 1].value

\* C15: with at least one inside sample and increasing thresholds, the bin
\* that holds the published totalPopulation is the last bin whose lower bound
\* is at most the published mean (a mean equal to a threshold belongs to the
\* bin that starts there), and every other bin holds 0.
C15_LastBinAtMostMean ==
  \A i \in CalcRuns :
    (runs[i].outcome = "published" /\ runs[i].nInside > 0 /\ StrictlyIncreasing) =>
      LET pub == runs[i].pub
          m == pub.censusStats.value.avgPM25
          bins == BinsAtMost(m)
          dist == pub.exposureByPM25.value.dist
      IN  bins # {} =>
            LET last == CHOOSE k \in bins : \A k2 \in bins : k2 <= k
            IN  \A k \in 1..Len(PM25_LEVELS) :
                  dist[PM25_LEVELS[k].label] =
                    IF k = last THEN pub.censusStats.value.totalPopulation ELSE 0

C15_Witness ==
  \E i \in CalcRuns :
    /\ runs[i].outcome = "published"
    /\ runs[i].nInside > 0
    /\ runs[i].pub.censusStats.value.avgPM25 = << PM25_LEVELS[3].value, 1 >>
    /\ runs[i].pub.exposureByPM25.value.dist[PM25_LEVELS[3].label]
         = runs[i].pub.censusStats.value.totalPopulation
    /\ runs[i].pub.exposureByPM25.value.dist[PM25_LEVELS[2].label] = 0

\* Whether some vertex of the outer ring of tract t passes isPointInPolygon.
SomeVertexInside(t, p) ==
  \E k \in 1..Len(Tract(t).ring) : isPointInPolygon(Tract(t).ring[k], PolyShape(p))

\* C16: the resolver retains exactly the candidates with at least one vertex
\* of the outer ring inside the polygon, in the renderer's order.
C16_RetainedIffVertexInside ==
  \A i \in 1..Len(runs) :
    (runs[i].path = "census" /\ ~runs[i].threw) =>
      /\ runs[i].hl = SelectSeq(runs[i].cand, LAMBDA t : SomeVertexInside(t, runs[i].polygon))
      /\ \A k \in 1..Len(runs[i].cand) :
           (\E n \in 1..Len(runs[i].hl) : runs[i].hl[n] = runs[i].cand[k])
             <=> SomeVertexInside(runs[i].cand[k], runs[i].polygon)

\* A unit whose vertices are all outside while a corner of the polygon is
\* inside the unit was excluded, and a unit with one vertex inside and the
\* others outside was retained.
C16_Witness ==
  /\ \E i \in 1..Len(runs) :
       /\ runs[i].cand = <<3>>
       /\ runs[i].hl = <<>>
       /\ isPointInPolygon(PolyShape(runs[i].polygon)[1], Tract(3).ring)
       /\ Len(runs[i].results) = 1
  /\ \E i \in 1..Len(runs) :
       /\ runs[i].polygon = 1
       /\ \E n \in 1..Len(runs[i].hl) : runs[i].hl[n] = 6
       /\ \E k \in 1..Len(Tract(6).ring) : ~isPointInPolygon(Tract(6).ring[k], PolyShape(1))

\* The resolved features that have a GEOID passing isValidGEOID.
ValidFeatures(features) ==
  SelectSeq(features, LAMBDA t : Len(Tract(t).geoid) > 0 /\ isValidGEOID(Tract(t).geoid))

\* C17: in a second-stage result, tracts has an entry exactly for the valid
\* GEOIDs of the resolved features, holding the table's population or 0 when
\* the table has none, and totalPopulation is the sum of the table
\* populations of the resolved features with a valid GEOID.
C17_InvalidGeoidsContributeNothing ==
  \A i \in 1..Len(runs) :
    runs[i].fetch = "ok" =>
      LET r == runs[i].results[2]
          valid == ValidFeatures(runs[i].hl)
      IN  /\ DOMAIN r.tracts = { Tract(valid[k]).geoid : k \in 1..Len(valid) }
          /\ \A g \in DOMAIN r.tracts :
               r.tracts[g] = IF g \in DOMAIN PopTable THEN PopTable[g] ELSE 0
          /\ r.totalPopulation = SumPop(valid, 1)

C17_Witness ==
  \E i \in 1..Len(runs) :
    /\ runs[i].fetch = "ok"
    /\ runs[i].hl = <<1, 4, 5, 6>>
    /\ DOMAIN runs[i].results[2].tracts = {G1, G3}
    /\ runs[i].results[2].tracts[G3] = 0
    /\ runs[i].results[2].totalPopulation = PopTable[G1]

\* The distinct vertices of a point list.
Vertices(points) == { points[k] : k \in 1..Len(points) }

\* C18: the polygon set by finishDrawing is closed, has at least 4 points and
\* at least 3 distinct vertices (so a draft with fewer than 3 distinct
\* vertices sets no polygon).
C18_FinalizedPolygonIsValid ==
  polygon = DrawnRef =>
    /\ Len(shape) >= 4
    /\ shape[Len(shape)] = shape[1]
    /\ Cardinality(Vertices(shape)) >= 3

\* ---- reference geometry for C19
\* Twice the signed area of the triangle a, b, c.
Cross(a, b, c) == (b[1] - a[1]) * (c[2] - a[2]) - (b[2] - a[2]) * (c[1] - a[1])

OnSegment(a, b, p) ==
  /\ Cross(a, b, p) = 0
  /\ Min(a[1], b[1]) <= p[1] /\ p[1] <= Max(a[1], b[1])
  /\ Min(a[2], b[2]) <= p[2] /\ p[2] <= Max(a[2], b[2])

SegmentsMeet(a, b, c, d) ==
  \/ (Cross(a, b, c) * Cross(a, b, d) < 0 /\ Cross(c, d, a) * Cross(c, d, b) < 0)
  \/ OnSegment(a, b, c) \/ OnSegment(a, b, d)
  \/ OnSegment(c, d, a) \/ OnSegment(c, d, b)

\* The ring without a repeated closing vertex.
OpenRing(poly) ==
  IF Len(poly) >= 2 /\ poly[Len(poly)] = poly[1] THEN SubSeq(poly, 1, Len(poly) - 1) ELSE poly

\* A simple polygon: at least 3 distinct vertices, edges that do not share a
\* vertex do not meet, and consecutive edges meet in their common vertex only.
IsSimple(poly) ==
  LET v == OpenRing(poly)
      n == Len(v)
      nxt(i) == IF i = n THEN 1 ELSE i + 1
  IN  /\ n >= 3
      /\ Cardinality(Vertices(v)) = n
      /\ \A i \in 1..n :
           /\ ~OnSegment(v[i], v[nxt(i)], v[nxt(nxt(i))])
           /\ ~OnSegment(v[nxt(i)], v[nxt(nxt(i))], v[i])
      /\ \A i \in 1..n, j \in 1..n :
           (i < j /\ nxt(i) # j /\ nxt(j) # i)
             => ~SegmentsMeet(v[i], v[nxt(i)], v[j], v[nxt(j)])

OnBoundary(pt, poly) ==
  \E i \in 1..Len(poly) :
    OnSegment(poly[i], poly[IF i = Len(poly) THEN 1 ELSE i + 1], pt)

\* The winding number of poly around pt, from edge i on.
RECURSIVE Winding(_, _, _)
Winding(pt, poly, i) ==
  IF i > Len(poly) THEN 0
  ELSE LET a == poly[i]
           b == poly[IF i = Len(poly) THEN 1 ELSE i + 1]
           step == IF a[2] <= pt[2]
                   THEN (IF b[2] > pt[2] /\ Cross(a, b, pt) > 0 THEN 1 ELSE 0)
                   ELSE (IF b[2] <= pt[2] /\ Cross(a, b, pt) < 0 THEN -1 ELSE 0)
       IN  step + Winding(pt, poly, i + 1)

ProbePoints == { <<x, y>> : x \in -1..5, y \in -1..5 }

AgreesWithWinding(poly) ==
  \A pt \in ProbePoints :
    ~OnBoundary(pt, poly) =>
      /\ isPointInPolygon(pt, poly) = (Winding(pt, poly, 1) # 0)
      /\ isPointInPolygonMC(pt, poly) = isPointInPolygon(pt, poly)

\* C19: for the draft (open) and the finalized polygon (closed), when simple,
\* both copies of isPointInPolygon agree with the winding number on every
\* point off the boundary; a point that is not an array of 2 entries is
\* outside.
C19_AgreesWithWindingNumber ==
  /\ IsSimple(tempPolygon) => AgreesWithWinding(tempPolygon)
  /\ (shape # <<>> /\ IsSimple(shape)) => AgreesWithWinding(shape)
  /\ \A poly \in {tempPolygon, shape} :
       /\ ~isPointInPolygon(<<>>, poly) /\ ~isPointInPolygon(<<1>>, poly)
       /\ ~isPointInPolygonMC(<<>>, poly) /\ ~isPointInPolygonMC(<<1>>, poly)

\* A finalized non-convex simple polygon with a point inside it and a point
\* outside it that lies inside its bounding box.
C19_Witness ==
  /\ shape # <<>>
  /\ IsSimple(shape)
  /\ \E k \in 1..(Len(shape) - 1) :
       Cross(shape[k], shape[k + 1], shape[IF k + 2 > Len(shape) THEN 2 ELSE k + 2]) < 0
  /\ \E k \in 1..(Len(shape) - 1) :
       Cross(shape[k], shape[k + 1], shape[IF k + 2 > Len(shape) THEN 2 ELSE k + 2]) > 0
  /\ \E pt \in ProbePoints : ~OnBoundary(pt, shape) /\ isPointInPolygon(pt, shape)
  /\ \E pt \in ProbePoints :
       /\ ~OnBoundary(pt, shape) /\ ~isPointInPolygon(pt, shape)
       /\ getBoundingBox(shape).minLng < pt[1] /\ pt[1] < getBoundingBox(shape).maxLng
       /\ getBoundingBox(shape).minLat < pt[2] /\ pt[2] < getBoundingBox(shape).maxLat

\* The point list reordered by the permutation f of its indices.
Reordered(points, f) == [k \in 1..Len(points) |-> points[f[k]]]

\* C20: the box of the draft is the same for every reordering of its points;
\* for a non-empty draft it has min <= max and contains every point; for the
\* empty draft it is the inverted box.
C20_BoundingBox ==
  LET box == getBoundingBox(tempPolygon)
  IN  /\ \A f \in Permutations(1..Len(tempPolygon)) :
           getBoundingBox(Reordered(tempPolygon, f)) = box
      /\ Len(tempPolygon) > 0 =>
           /\ box.minLng <= box.maxLng
           /\ box.minLat <= box.maxLat
           /\ \A k \in 1..Len(tempPolygon) :
                /\ box.minLng <= tempPolygon[k][1] /\ tempPolygon[k][1] <= box.maxLng
                /\ box.minLat <= tempPolygon[k][2] /\ tempPolygon[k][2] <= box.maxLat
      /\ Len(tempPolygon) = 0 =>
           box = [minLng |-> Infinity, maxLng |-> -Infinity,
                  minLat |-> Infinity, maxLat |-> -Infinity]

C20_Witness ==
  /\ Len(tempPolygon) >= 3
  /\ getBoundingBox(tempPolygon).minLng < tempPolygon[1][1]
  /\ getBoundingBox(tempPolygon).maxLng > tempPolygon[Len(tempPolygon)][1]
  /\ getBoundingBox(tempPolygon).minLat < getBoundingBox(tempPolygon).maxLat

\* The windows of the table that contain the instant (date, hour).
WindowsOf(date, hour) ==
  { k \in 1..Len(TILESET_INFO) :
      /\ TILESET_INFO[k].date = date
      /\ TILESET_INFO[k].startHour <= hour
      /\ hour <= TILESET_INFO[k].endHour }

\* The instants the lookup is probed with: days 0 and 1 and the empty date.
ProbeDates == {EmptyDate, 0, 1}
ProbeHours == 0..4

\* C21: the lookup returns at most one window; a returned window is a window
\* of the table that contains the instant; an instant in no window yields
\* none; and the instant a calculateExposure run was given decides whether
\* the run found a tileset.
C21_TilesetLookup ==
  /\ \A date \in ProbeDates, hour \in ProbeHours :
       LET r == getCurrentTilesetInfo(date, hour)
       IN  /\ Len(r) <= 1
           /\ Len(r) = 1 => \E k \in WindowsOf(date, hour) : r[1] = TILESET_INFO[k]
           /\ Len(r) = 0 <=> WindowsOf(date, hour) = {}
  /\ LET dt == getCurrentDateTime(currentHour)
     IN  IF WindowsOf(currentHour \div 24, currentHour % 24) = {}
         THEN dt = [date |-> EmptyDate, hour |-> 0]
         ELSE dt = [date |-> currentHour \div 24, hour |-> currentHour % 24]
  /\ \A i \in CalcRuns :
       (runs[i].path = "noTileset") <=> (WindowsOf(runs[i].dt.date, runs[i].dt.hour) = {})

C21_Witness ==
  /\ \E i \in CalcRuns : runs[i].path = "noTileset" /\ runs[i].pc = "done"
  /\ WindowsOf(currentHour \div 24, currentHour % 24) = {}
  /\ \E hour \in ProbeHours : Len(getCurrentTilesetInfo(0, hour)) = 1

\* C23: a request that met a renderer that was not ready (the concentration
\* layer not loaded, or no unit rendered) publishes no error.
C23_NotReadyIsNotAnError ==
  \A i \in CalcRuns :
    (/\ statsBy = i
     /\ \/ runs[i].path = "layerMissing"
        \/ (runs[i].path = "census" /\ ~runs[i].threw /\ runs[i].nCand = 0
              /\ runs[i].outcome = "published"))
      => /\ stats.censusStats.error = ErrNone
         /\ stats.exposureByPM25.error = ErrNone

\* C24: a request whose census query threw has no highlight result, starts
\* no population fetch and returns the single result 'noTracts'; a later
\* request for the same polygon whose query succeeds resolves its units and,
\* with units found, returns 'calculating'.
C24_ThrowIsNoResultAndRetryWorks ==
  /\ \A i \in 1..Len(runs) :
       runs[i].threw =>
         /\ runs[i].hl = <<>>
         /\ runs[i].fetch = "none"
         /\ runs[i].pc # "awaitHighlight" =>
              runs[i].results = << Result("noTracts", 0, 0, NoTracts) >>
  /\ \A i \in 1..Len(runs), j \in 1..Len(runs) :
       (/\ i < j /\ runs[i].threw /\ ~runs[j].threw
        /\ runs[j].path = "census" /\ runs[j].polygon = runs[i].polygon)
         => /\ runs[j].hl = SelectSeq(runs[j].cand,
                                      LAMBDA t : SomeVertexInside(t, runs[j].polygon))
            /\ (Len(runs[j].hl) > 0 /\ Len(runs[j].results) >= 1)
                 => /\ runs[j].results[1].status = "calculating"
                    /\ runs[j].results[1].tractCount = Len(runs[j].hl)

C24_Witness ==
  \E i \in 1..Len(runs), j \in 1..Len(runs) :
    /\ i < j /\ runs[i].threw /\ ~runs[j].threw
    /\ runs[i].pc = "done"
    /\ runs[i].results[1].status = "noTracts"
    /\ runs[j].polygon = runs[i].polygon
    /\ Len(runs[j].hl) > 0
    /\ Len(runs[j].results) = 2
    /\ runs[j].results[2].status = "complete"

\* C25: a memo that holds a result holds the result published by one
\* successfully completed run together with that run's polygon reference and
\* time key; runs that ended in the catch block, with the layer not loaded
\* or with no tileset never wrote it.
C25_MemoIsConsistent ==
  /\ lastCalculation.hasResult =>
       /\ memoBy \in CalcRuns
       /\ runs[memoBy].outcome = "published"
       /\ lastCalculation.polygon = runs[memoBy].polygon
       /\ lastCalculation.time = << runs[memoBy].dt.date, runs[memoBy].dt.hour >>
       /\ lastCalculation.result = runs[memoBy].pub
       /\ lastCalculation.result
            = NewStats(runs[memoBy].results[1], runs[memoBy].inside)
  /\ ~lastCalculation.hasResult => (memoBy = 0 /\ lastCalculation = NoMemo)
  /\ \A i \in CalcRuns :
       (runs[i].outcome = "caught" \/ runs[i].path \in {"layerMissing", "noTileset", "memo"})
         => memoBy # i

\* Two runs overlapped and completed out of order, the memo holds the older
\* run's result, and a run for the second tileset has completed as well.
C25_Witness ==
  /\ \E i \in CalcRuns, j \in CalcRuns :
       /\ i < j
       /\ runs[i].outcome = "published" /\ runs[j].outcome = "published"
       /\ Inputs(i) # Inputs(j)
       /\ runs[j].pub # runs[i].pub \/ runs[j].polygon # runs[i].polygon
       /\ memoBy = i
  /\ \E i \in CalcRuns : runs[i].outcome = "caught"

\* The sum of the entries of a tracts map.
RECURSIVE SumEntries(_, _)
SumEntries(tracts, keys) ==
  IF keys = {} THEN 0
  ELSE LET g == CHOOSE x \in keys : TRUE
       IN  tracts[g] + SumEntries(tracts, keys \ {g})

\* C28: in a 'complete' second-stage result, tractCount is the number of
\* entries of tracts and totalPopulation is the sum of their populations.
C28_SummaryAgreesWithTracts ==
  \A i \in 1..Len(runs) :
    (Len(runs[i].results) = 2 /\ runs[i].results[2].status = "complete") =>
      LET r == runs[i].results[2]
      IN  /\ r.tractCount = Cardinality(DOMAIN r.tracts)
          /\ r.totalPopulation = SumEntries(r.tracts, DOMAIN r.tracts)

\* ------------------------------------------------------------------ C22
HookRuns == { i \in 1..Len(runs) : runs[i].kind = "hook" }

\* Change k ends a burst: no change follows it in less than HookWait.
EndsBurst(k) ==
  \/ k = Len(hook.changes)
  \/ hook.changes[k + 1].at - hook.changes[k].at >= HookWait

\* The time HookWait after change k has passed with the hook mounted and no
\* further change in between.
BurstElapsed(k) ==
  IF k < Len(hook.changes)
  THEN hook.changes[k + 1].at - hook.changes[k].at > HookWait
  ELSE IF hook.state = "unmounted"
       THEN hook.unmountedAt[1] > hook.changes[k].at + HookWait
       ELSE now > hook.changes[k].at + HookWait

\* Run i is the request of change k: started HookWait after it, with its inputs.
RequestOf(i, k) ==
  /\ runs[i].at = hook.changes[k].at + HookWait
  /\ runs[i].polygon = hook.changes[k].polygon
  /\ runs[i].dt = getCurrentDateTime(hook.changes[k].hour)

\* Every request of the hook belongs to the end of a burst, no two requests
\* belong to the same one, and nothing pending survives the unmount.
HookRequestsAreDebounced ==
  /\ \A i \in HookRuns :
       /\ \E k \in 1..Len(hook.changes) :
            EndsBurst(k) /\ RequestOf(i, k) /\ hook.changes[k].polygon # 0
       /\ hook.state = "unmounted" => runs[i].at <= hook.unmountedAt[1]
  /\ \A i, j \in HookRuns : i # j => runs[i].at # runs[j].at
  /\ hook.state = "unmounted" => ~hook.debounced.timer

\* C22 as stated: in the usePopulationExposure hook every burst of input
\* changes (each less than 500 ms after the previous one) leads to exactly one
\* getSelectedCensusTracts execution, started 500 ms after the last change
\* with the latest inputs, and a pending execution is cancelled when the
\* inputs change or the hook unmounts.
C22_EveryBurstEndsInOneRequest ==
  /\ HookRequestsAreDebounced
  /\ \A k \in 1..Len(hook.changes) :
       BurstElapsed(k) => \E i \in HookRuns : RequestOf(i, k)

\* C22, amended: a burst whose latest inputs hold a polygon leads to exactly
\* one getSelectedCensusTracts execution, started 500 ms after the last
\* change with the latest inputs; a burst whose latest polygon is null leads
\* to none; a pending execution is cancelled when the inputs change or the
\* hook unmounts.
C22_BurstWithPolygonEndsInOneRequest ==
  /\ HookRequestsAreDebounced
  /\ \A k \in 1..Len(hook.changes) :
       BurstElapsed(k) /\ hook.changes[k].polygon # 0
         => \E i \in HookRuns : RequestOf(i, k)

\* Two changes less than 500 ms apart with different polygons, and the one
\* request, made for the second.
C22_Witness ==
  /\ Len(hook.changes) = 2
  /\ hook.changes[2].at - hook.changes[1].at \in 1..(HookWait - 1)
  /\ hook.changes[1].polygon # 0
  /\ hook.changes[2].polygon # 0
  /\ hook.changes[1].polygon # hook.changes[2].polygon
  /\ HookRuns # {}
  /\ \A i \in HookRuns : RequestOf(i, 2)
  /\ now > hook.changes[2].at + HookWait

\* ------------------------------------------------------------------ C26
\* The clicks that resulted in a selection (setPolygon and a census request).
Selections == { k \in 1..Len(clicks) : clicks[k].pc = "requested" }
Clears == { k \in 1..Len(clicks) : clicks[k].kind = "clear" }

\* C26: between two consecutive clearPolygon calls at most one map click
\* results in a selection: any two clicks that did have a clearPolygon call
\* between them.
C26_OneSelectionBetweenClears ==
  \A j, k \in Selections : j < k => \E c \in Clears : j < c /\ c < k

\* ------------------------------------------------------------------ C27
\* C27: while clearPolygon is the latest thing the user did, the polygon is
\* null, isPointSelected is false and no tract is highlighted.
C27_ClearedStaysCleared ==
  (Len(clicks) > 0 /\ clicks[Len(clicks)].kind = "clear")
    => /\ polygon = 0
       /\ ~isPointSelected
       /\ highlight = <<>>

====
